---- MODULE Spec2Model ----
(***************************************************************************)
(* Model of scripts/crawl_and_merge.py: the rate-limited fetcher api_get,  *)
(* the stack-based directory walker crawl_file_items, the per-file         *)
(* extraction (pick_best_link, aggregate_deprecation) and the run of main  *)
(* that writes catalog.json.                                               *)
(*                                                                         *)
(* JSON values are tagged records [t |-> type, v |-> value]; None and an   *)
(* absent key are both JNull, since every read in the source is a dict.get *)
(* whose result is tested for truthiness or type.                          *)
(***************************************************************************)
EXTENDS Integers, Sequences, FiniteSets, TLC

VARIABLES
    tree,       \* the remote repository: tree[n] is the descriptor of path n
    pc,         \* position of main: start, crawl, process, done, aborted
    head_sha,   \* main's head_sha
    stack,      \* crawl_file_items' work stack
    files,      \* crawl_file_items' result list, then main's files
    listed,     \* history: the paths handed to list_dir, in order
    i,          \* main's loop index (1-based, as enumerate(files, start=1))
    entries,    \* main's entries
    errors,     \* main's errors
    handled,    \* history: per loop iteration, what became of the file
    net,        \* history: the network operation of the last step (NoNet: none)
    out_file,   \* the content of catalog.json (NoFile until written)
    writes,     \* history: number of writes of catalog.json
    arg,        \* input of a function applied on its own
    ret         \* its result (NotCalled until it was applied)

vars == <<tree, pc, head_sha, stack, files, listed, i, entries, errors,
          handled, net, out_file, writes, arg, ret>>

runVars == <<tree, pc, head_sha, stack, files, listed, i, entries, errors,
             handled, net, out_file, writes>>

-----------------------------------------------------------------------------
(* Bounds of the model *)

\* number of paths below START_PATH in the remote tree
MaxNodes == 3
\* longest "links" list of a service document
MaxLinks == 3
\* longest "servicePlans" list of a service document
MaxPlans == 2

-----------------------------------------------------------------------------
(* JSON values *)

JNull == [t |-> "null", v |-> "null"]
JStr(s) == [t |-> "str", v |-> s]
JBool(b) == [t |-> "bool", v |-> b]
JInt(n) == [t |-> "int", v |-> n]
\* a JSON value that is neither a dict nor a list where one is expected
JOther == [t |-> "other", v |-> "other"]

\* Python truthiness of a JSON value
Truthy(x) ==
    CASE x.t = "null" -> FALSE
      [] x.t = "str" -> x.v # ""
      [] x.t = "bool" -> x.v
      [] x.t = "int" -> x.v # 0
      [] x.t = "list" -> x.v # <<>>
      [] OTHER -> TRUE

Max(a, b) == IF a >= b THEN a ELSE b

\* all sequences over S of length at most n
SeqsUpTo(S, n) == UNION {[1..k -> S] : k \in 0..n}

NoDup(s) == \A a, b \in 1..Len(s) : a # b => s[a] # s[b]

Range(s) == {s[k] : k \in 1..Len(s)}

-----------------------------------------------------------------------------
(* HTTP responses and the rate-limited fetcher *)

\* SESSION.get raised (timeout, connection error): there is no response
NetFail == [status |-> 0, remaining |-> "absent", reset |-> "absent", body |-> "none"]

Statuses == {200, 403, 404, 500}
\* X-RateLimit-Remaining
RemainingHeaders == {"absent", "0", "57"}
\* X-RateLimit-Reset: absent, an epoch in decimal, or text int() rejects
ResetHeaders == {"absent", "104", "110", "soon"}
\* what resp.json() yields
Bodies == {"list", "dict"}

Responses ==
    [status : Statuses, remaining : RemainingHeaders, reset : ResetHeaders,
     body : Bodies] \cup {NetFail}

\* time.time() at the moment of the rate-limit branch
Times == {100, 109}

Resp(status, remaining, reset, body) ==
    [status |-> status, remaining |-> remaining, reset |-> reset, body |-> body]

\* the responses the run of main is explored with
RunResponses ==
    { Resp(200, "57", "110", "list"), Resp(200, "57", "110", "dict"),
      Resp(403, "0", "110", "list"), Resp(404, "57", "110", "dict"), NetFail }

RunNow == 100

\* int(resp.headers.get("X-RateLimit-Reset", "0")): the value, or -1 for ValueError
ResetTs(r) ==
    CASE r.reset = "absent" -> 0
      [] r.reset = "104" -> 104
      [] r.reset = "110" -> 110
      [] OTHER -> -1

RateLimited(r) == r.status = 403 /\ r.remaining = "0"

\* resp.raise_for_status() raises on 4xx and 5xx
RaisesForStatus(r) == r.status >= 400 /\ r.status < 600

Raised(events, slept) ==
    [events |-> events, slept |-> slept, raised |-> TRUE, resp |-> NetFail]

Returned(events, slept, r) ==
    [events |-> events, slept |-> slept, raised |-> FALSE, resp |-> r]

\* api_get retrying on every 403, whatever X-RateLimit-Remaining says
api_get_any403(r1, r2, now) ==
    IF r1 = NetFail THEN Raised(<<"get", "raise">>, 0)
    ELSE IF r1.status = 403 THEN
        IF r2 = NetFail \/ RaisesForStatus(r2)
        THEN Raised(<<"get", "sleep", "get", "raise">>, 1)
        ELSE Returned(<<"get", "sleep", "get", "return">>, 1, r2)
    ELSE IF RaisesForStatus(r1) THEN Raised(<<"get", "raise">>, 0)
    ELSE Returned(<<"get", "return">>, 0, r1)

\* api_get(url, params): r1 answers the first request, r2 the retry if one is
\* made; events is the order of requests, sleep and outcome
api_get(r1, r2, now) ==
    IF r1 = NetFail THEN Raised(<<"get", "raise">>, 0)
    ELSE IF RateLimited(r1) THEN
        IF ResetTs(r1) < 0 THEN Raised(<<"get", "raise">>, 0)
        ELSE LET sleep_for == Max(1, ResetTs(r1) - now + 2) IN
            IF r2 = NetFail \/ RaisesForStatus(r2)
            THEN Raised(<<"get", "sleep", "get", "raise">>, sleep_for)
            ELSE Returned(<<"get", "sleep", "get", "return">>, sleep_for, r2)
    ELSE IF RaisesForStatus(r1) THEN Raised(<<"get", "raise">>, 0)
    ELSE Returned(<<"get", "return">>, 0, r1)

\* download_text going through the rate-limited fetcher
download_text_via_api_get(r) == api_get(r, Resp(200, "57", "110", "dict"), 100)

\* download_text(url): one SESSION.get, raise_for_status, no retry
download_text(r) ==
    IF r = NetFail \/ RaisesForStatus(r) THEN Raised(<<"get", "raise">>, 0)
    ELSE Returned(<<"get", "return">>, 0, r)

Count(events, e) == Cardinality({k \in 1..Len(events) : events[k] = e})

\* what the run remembers of a network operation
NetLog(kind, r1, call) ==
    [kind |-> kind, limited |-> RateLimited(r1),
     parsable |-> ResetTs(r1) >= 0,
     requests |-> Count(call.events, "get"),
     sleeps |-> Count(call.events, "sleep"),
     raised |-> call.raised,
     body |-> call.resp.body]

NoNet ==
    [kind |-> "none", limited |-> FALSE, parsable |-> TRUE, requests |-> 0,
     sleeps |-> 0, raised |-> FALSE, body |-> "none"]

-----------------------------------------------------------------------------
(* The remote tree served by the contents API *)

\* the path START_PATH
START_PATH == 0

Nodes == 1..MaxNodes

Path(n, ext) == [id |-> n, ext |-> ext]

\* path.endswith(".json")
EndsWithJson(path) == path.ext = ".json"

Url(kind, n) == [t |-> "url", v |-> <<kind, n>>]

\* the descriptors a listing can hold for path n, its parent left open
DescsOf(n) ==
    {[type |-> "dir", path |-> Path(n, ""), sha |-> "t0",
      download_url |-> JNull, html_url |-> Url("html", n)],
     [type |-> "symlink", path |-> Path(n, ""), sha |-> "l0",
      download_url |-> Url("raw", n), html_url |-> Url("html", n)],
     [type |-> "file", path |-> Path(n, ".md"), sha |-> "b1",
      download_url |-> Url("raw", n), html_url |-> Url("html", n)],
     [type |-> "file", path |-> Path(n, ".json"), sha |-> "b1",
      download_url |-> JNull, html_url |-> Url("html", n)]}
    \cup
    {[type |-> "file", path |-> Path(n, ".json"), sha |-> s,
      download_url |-> Url("raw", n), html_url |-> Url("html", n)] :
        s \in {"b1", "b2"}}

\* the paths that can be the parent of a new path k: START_PATH or a directory
ParentsIn(t, k) == {q \in 0..(k - 1) : q = START_PATH \/ t[q].desc.type = "dir"}

\* the finite acyclic trees over paths 1..k: every path has one parent, a
\* directory of a smaller number, so each path is in exactly one listing
RECURSIVE TreesUpTo(_)
TreesUpTo(k) ==
    IF k = 0 THEN {<<>>}
    ELSE UNION {{Append(t, [desc |-> d, parent |-> q]) :
                    d \in DescsOf(k), q \in ParentsIn(t, k)} :
                 t \in TreesUpTo(k - 1)}

Trees == TreesUpTo(MaxNodes)

RECURSIVE Ascending(_, _)
Ascending(S, from) ==
    IF from > MaxNodes THEN <<>>
    ELSE (IF from \in S THEN <<from>> ELSE <<>>) \o Ascending(S, from + 1)

\* the payload of GET contents/p: the descriptors of p's immediate children
Listing(t, p) ==
    LET kids == Ascending({n \in Nodes : t[n].parent = p}, 1)
    IN  [k \in 1..Len(kids) |-> t[kids[k]].desc]

IsDir(item) == item.type = "dir"
IsFile(item) == item.type = "file"

\* list_dir without the isinstance test
list_dir_unchecked(r1, r2, now) ==
    [raised |-> api_get(r1, r2, now).raised, isList |-> TRUE]

\* list_dir(path): api_get, then the isinstance(data, list) test
list_dir(r1, r2, now) ==
    LET call == api_get(r1, r2, now)
    IN  IF call.raised THEN [raised |-> TRUE, isList |-> FALSE]
        ELSE IF call.resp.body # "list" THEN [raised |-> TRUE, isList |-> FALSE]
        ELSE [raised |-> FALSE, isList |-> TRUE]

\* the walker pushing every item that is not a file
PushedAll(items) == [k \in 1..Len(SelectSeq(items, LAMBDA it : ~IsFile(it))) |->
                        SelectSeq(items, LAMBDA it : ~IsFile(it))[k].path.id]

\* the paths the for-loop of crawl_file_items pushes, in order
Pushed(items) ==
    LET dirs == SelectSeq(items, IsDir)
    IN  [k \in 1..Len(dirs) |-> dirs[k].path.id]

\* the walker appending each file item twice
Collected_twice(items) == SelectSeq(items, IsFile) \o SelectSeq(items, IsFile)

\* the items the for-loop of crawl_file_items appends to files, in order
Collected(items) == SelectSeq(items, IsFile)

-----------------------------------------------------------------------------
(* Service documents and the catalog extractor *)

JList(seq) == [t |-> "list", v |-> seq]

\* str.lower() on the classifications of the model
Lower(s) ==
    CASE s = "Discovery Center" -> "discovery center"
      [] s = "DOCUMENTATION" -> "documentation"
      [] s = "Other" -> "other"
      [] OTHER -> s

\* str.strip() on the messages and dates of the model
Strip(s) ==
    CASE s = "  " -> ""
      [] s = " end of life " -> "end of life"
      [] s = " 2024-01-01" -> "2024-01-01"
      [] OTHER -> s

\* isinstance(v, str) and v.strip()
NonBlankStr(v) == v.t = "str" /\ Strip(v.v) # ""

\* a link object {"classification": c, "value": v}
LinkObj(c, v) == [t |-> "dict", classification |-> c, value |-> v]

\* (l.get("classification") or "").lower()
ClassOf(l) == IF Truthy(l.classification) THEN Lower(l.classification.v) ELSE ""

\* the condition of one tier's loop body in pick_best_link
TierMatch(l, class) ==
    /\ l.t = "dict"
    /\ class # "" => ClassOf(l) = class
    /\ Truthy(l.value)

\* index of the first entry of links that matches the tier, 0 if none
RECURSIVE FirstMatch(_, _, _)
FirstMatch(links, class, k) ==
    IF k > Len(links) THEN 0
    ELSE IF TierMatch(links[k], class) THEN k
    ELSE FirstMatch(links, class, k + 1)

\* pick_best_link with a single pass: the first entry that is Discovery Center
\* or Documentation wins
pick_best_link_one_pass(service_obj, fallback_html_url) ==
    LET links == IF service_obj.links.t = "list" THEN service_obj.links.v ELSE <<>>
        hit == CHOOSE k \in 0..Len(links) :
                 /\ k # 0 => TierMatch(links[k], "discovery center")
                             \/ TierMatch(links[k], "documentation")
                 /\ \A j \in 1..Len(links) :
                        (k = 0 \/ j < k) =>
                            ~(TierMatch(links[j], "discovery center")
                              \/ TierMatch(links[j], "documentation"))
        any == FirstMatch(links, "", 1)
    IN  IF hit # 0 THEN links[hit].value
        ELSE IF any # 0 THEN links[any].value
        ELSE fallback_html_url

\* pick_best_link(service_obj, fallback_html_url); str() of a string is the string
pick_best_link(service_obj, fallback_html_url) ==
    LET links == IF Truthy(service_obj.links) THEN service_obj.links ELSE JList(<<>>)
    IN  IF links.t = "list" THEN
            LET dc == FirstMatch(links.v, "discovery center", 1)
                doc == FirstMatch(links.v, "documentation", 1)
                any == FirstMatch(links.v, "", 1)
            IN  IF dc # 0 THEN links.v[dc].value
                ELSE IF doc # 0 THEN links.v[doc].value
                ELSE IF any # 0 THEN links.v[any].value
                ELSE fallback_html_url
        ELSE fallback_html_url

\* the two root-level loops over a pair of keys: each non-blank string is
\* assigned in turn, so a later key overwrites an earlier one
RootText(service_obj, k1, k2) ==
    LET a == IF NonBlankStr(service_obj[k1]) THEN JStr(Strip(service_obj[k1].v)) ELSE JNull
    IN  IF NonBlankStr(service_obj[k2]) THEN JStr(Strip(service_obj[k2].v)) ELSE a

\* the root-level loop over ("deprecated", "isDeprecated")
RootFlag(service_obj) ==
    \E k \in {"deprecated", "isDeprecated"} :
        service_obj[k].t = "bool" /\ service_obj[k].v

\* one iteration of the loop over plans; acc is (deprecated, msg, date)
PlanStep(acc, p) ==
    IF p.t # "dict" THEN acc
    ELSE IF ~(p.deprecated.t = "bool" /\ p.deprecated.v) THEN acc
    ELSE [deprecated |-> TRUE,
          msg |-> IF ~Truthy(acc.msg) /\ NonBlankStr(p.deprecationMessage)
                  THEN JStr(Strip(p.deprecationMessage.v)) ELSE acc.msg,
          date |-> IF ~Truthy(acc.date) /\ NonBlankStr(p.deprecationDate)
                   THEN JStr(Strip(p.deprecationDate.v)) ELSE acc.date]

RECURSIVE PlanLoop(_, _)
PlanLoop(acc, plans) ==
    IF plans = <<>> THEN acc ELSE PlanLoop(PlanStep(acc, Head(plans)), Tail(plans))

\* aggregate_deprecation that reads the root-level flags only
aggregate_deprecation_root_only(service_obj) ==
    [deprecated |-> RootFlag(service_obj),
     msg |-> RootText(service_obj, "deprecationMessage", "deprecatedMessage"),
     date |-> RootText(service_obj, "deprecationDate", "deprecatedDate")]

\* aggregate_deprecation(service_obj) -> (deprecated, msg, date)
aggregate_deprecation(service_obj) ==
    LET root == [deprecated |-> RootFlag(service_obj),
                 msg |-> RootText(service_obj, "deprecationMessage", "deprecatedMessage"),
                 date |-> RootText(service_obj, "deprecationDate", "deprecatedDate")]
        plans == IF service_obj.servicePlans.t = "list"
                 THEN service_obj.servicePlans.v ELSE <<>>
    IN  PlanLoop(root, plans)

\* a service plan {"deprecated": d, "deprecationMessage": m, "deprecationDate": dt}
Plan(d, m, dt) ==
    [t |-> "dict", deprecated |-> d, deprecationMessage |-> m, deprecationDate |-> dt]

\* a parsed service document (a JSON object)
ServiceObj(name, links, dep, isDep, msg1, msg2, date1, date2, plans) ==
    [t |-> "dict", name |-> name, displayName |-> JStr("Display"),
     description |-> JNull, links |-> links,
     deprecated |-> dep, isDeprecated |-> isDep,
     deprecationMessage |-> msg1, deprecatedMessage |-> msg2,
     deprecationDate |-> date1, deprecatedDate |-> date2,
     servicePlans |-> plans]

-----------------------------------------------------------------------------
(* The run of main *)

\* what json.loads is given: text that is no JSON, a top-level array, or an object
NotJson == [t |-> "garbage", v |-> "<html>"]

SampleDocs ==
    { ServiceObj(JStr("alpha"),
                 JList(<<LinkObj(JStr("DOCUMENTATION"), JStr("https://help")),
                         LinkObj(JStr("Discovery Center"), JStr("https://dc"))>>),
                 JNull, JNull, JNull, JNull, JNull, JNull,
                 JList(<<Plan(JBool(TRUE), JNull, JStr(" 2024-01-01"))>>)),
      ServiceObj(JNull, JNull, JBool(FALSE), JNull, JNull, JNull, JNull, JNull, JNull) }

RunContents == {NotJson, JList(<<>>)} \cup SampleDocs

\* json.loads(content) raises on text that is no JSON
JsonLoadsRaises(content) == content.t = "garbage"

\* service_obj.get raises AttributeError unless the document is an object
GetRaises(service_obj) == service_obj.t # "dict"

\* Path(path).stem
Stem(path) == [t |-> "stem", v |-> path.id]

\* the entry built in the try block of main's loop
Entry(f, service_obj) ==
    LET dep == aggregate_deprecation(service_obj)
    IN  [name |-> IF Truthy(service_obj.name) THEN service_obj.name ELSE Stem(f.path),
         displayName |-> service_obj.displayName,
         description |-> service_obj.description,
         link |-> pick_best_link(service_obj, f.html_url),
         deprecated |-> dep.deprecated,
         deprecationMessage |-> dep.msg,
         deprecationDate |-> dep.date,
         path |-> f.path,
         sha |-> f.sha,
         raw_url |-> f.download_url,
         html_url |-> f.html_url]

NoFile == [t |-> "nofile"]

\* no function is being applied
NoArg == [t |-> "none"]
NotCalled == [t |-> "none"]

\* the catalog counting the failed files as well
Catalog_count_all(sha, es, errs) ==
    [t |-> "catalog", head_sha |-> sha, count |-> Len(es) + errs, errors |-> errs,
     services |-> es]

\* the catalog dict main builds and dumps
Catalog(sha, es, errs) ==
    [t |-> "catalog", head_sha |-> sha, count |-> Len(es), errors |-> errs,
     services |-> es]

Init ==
    /\ tree \in Trees
    /\ pc = "start"
    /\ head_sha = JNull
    /\ stack = <<>>
    /\ files = <<>>
    /\ listed = <<>>
    /\ i = 0
    /\ entries = <<>>
    /\ errors = 0
    /\ handled = <<>>
    /\ net = NoNet
    /\ out_file = NoFile
    /\ writes = 0
    /\ arg = NoArg
    /\ ret = NotCalled

\* head_sha = get_branch_head_sha(): any exception yields None; then
\* crawl_file_items starts with stack = [start_path]
get_branch_head_sha ==
    /\ pc = "start"
    /\ \E r1, r2 \in RunResponses :
        LET call == api_get(r1, r2, RunNow)
        IN  /\ head_sha' = IF call.raised \/ call.resp.body # "dict"
                           THEN JNull ELSE JStr("c0ffee")
            /\ net' = NetLog("head", r1, call)
    /\ pc' = "crawl"
    /\ stack' = <<START_PATH>>
    /\ files' = <<>>
    /\ UNCHANGED <<tree, listed, i, entries, errors, handled, out_file, writes, arg, ret>>

\* one iteration of the while loop of crawl_file_items: pop, list_dir, the
\* for-loop over the items; an exception of list_dir leaves main
crawl_file_items ==
    /\ pc = "crawl"
    /\ stack # <<>>
    /\ LET p == stack[Len(stack)]
           rest == SubSeq(stack, 1, Len(stack) - 1)
       IN  \E r1, r2 \in RunResponses :
            LET got == list_dir(r1, r2, RunNow)
                items == Listing(tree, p)
            IN  /\ listed' = Append(listed, p)
                /\ net' = NetLog("list", r1, api_get(r1, r2, RunNow))
                /\ IF got.raised
                   THEN /\ pc' = "aborted"
                        /\ stack' = rest
                        /\ files' = files
                   ELSE /\ pc' = "crawl"
                        /\ stack' = rest \o Pushed(items)
                        /\ files' = files \o Collected(items)
    /\ UNCHANGED <<tree, head_sha, i, entries, errors, handled, out_file, writes, arg, ret>>

\* the while loop ends on the empty stack; main sets entries = [], errors = 0
crawl_return ==
    /\ pc = "crawl"
    /\ stack = <<>>
    /\ pc' = "process"
    /\ i' = 1
    /\ entries' = <<>>
    /\ errors' = 0
    /\ net' = NoNet
    /\ UNCHANGED <<tree, head_sha, stack, files, listed, handled, out_file, writes, arg, ret>>

\* the except branch losing the count
OnError_uncounted(n) == n

\* the except branch of main's loop
OnError(n) == n + 1

\* one iteration of main's for-loop over files
main_loop ==
    /\ pc = "process"
    /\ i <= Len(files)
    /\ LET f == files[i]
       IN  IF ~EndsWithJson(f.path) \/ ~Truthy(f.download_url) \/ ~Truthy(f.html_url)
           THEN /\ handled' = Append(handled, "skipped")
                /\ net' = NoNet
                /\ UNCHANGED <<entries, errors>>
           ELSE \E r \in RunResponses, content \in RunContents :
                LET dl == download_text(r)
                IN  /\ net' = NetLog("raw", r, dl)
                    /\ IF dl.raised \/ JsonLoadsRaises(content) \/ GetRaises(content)
                       THEN /\ errors' = OnError(errors)
                            /\ entries' = entries
                            /\ handled' = Append(handled, "error")
                       ELSE /\ entries' = Append(entries, Entry(f, content))
                            /\ errors' = errors
                            /\ handled' = Append(handled, "entry")
    /\ i' = i + 1
    /\ UNCHANGED <<tree, pc, head_sha, stack, files, listed, out_file, writes, arg, ret>>

\* after the loop: build the catalog and write OUT_FILE
main_write ==
    /\ pc = "process"
    /\ i > Len(files)
    /\ out_file' = Catalog(head_sha, entries, errors)
    /\ writes' = writes + 1
    /\ pc' = "done"
    /\ net' = NoNet
    /\ UNCHANGED <<tree, head_sha, stack, files, listed, i, entries, errors, handled, arg, ret>>

Next ==
    \/ get_branch_head_sha
    \/ crawl_file_items
    \/ crawl_return
    \/ main_loop
    \/ main_write

Spec == Init /\ [][Next]_vars

-----------------------------------------------------------------------------
(* The functions on their own: the input is drawn in the initial state and   *)
(* the function is applied once.                                             *)

\* main is not running
Idle ==
    /\ tree = <<>>
    /\ pc = "idle"
    /\ head_sha = JNull
    /\ stack = <<>>
    /\ files = <<>>
    /\ listed = <<>>
    /\ i = 0
    /\ entries = <<>>
    /\ errors = 0
    /\ handled = <<>>
    /\ net = NoNet
    /\ out_file = NoFile
    /\ writes = 0

InitApi ==
    /\ Idle
    /\ arg \in [r1 : Responses, r2 : Responses, now : Times]
    /\ ret = NotCalled

call_api_get ==
    /\ ret = NotCalled
    /\ ret' = api_get(arg.r1, arg.r2, arg.now)
    /\ UNCHANGED <<runVars, arg>>

SpecApi == InitApi /\ [][call_api_get]_vars

Classifications ==
    {JNull, JStr("Discovery Center"), JStr("discovery center"),
     JStr("DOCUMENTATION"), JStr("documentation"), JStr("Other")}

LinkValues == {JNull, JStr(""), JStr("https://a"), JStr("https://b")}

\* the entries of a "links" list: link objects, and an entry that is no object
LinkEntries == {JOther} \cup {LinkObj(c, v) : c \in Classifications, v \in LinkValues}

LinksValues == {JNull, JOther} \cup {JList(l) : l \in SeqsUpTo(LinkEntries, MaxLinks)}

LinkDocs ==
    {ServiceObj(JStr("svc"), l, JNull, JNull, JNull, JNull, JNull, JNull, JNull) :
        l \in LinksValues}

InitLink ==
    /\ Idle
    /\ arg \in [service_obj : LinkDocs, fallback_html_url : {Url("html", 1)}]
    /\ ret = NotCalled

call_pick_best_link ==
    /\ ret = NotCalled
    /\ ret' = pick_best_link(arg.service_obj, arg.fallback_html_url)
    /\ UNCHANGED <<runVars, arg>>

SpecLink == InitLink /\ [][call_pick_best_link]_vars

\* the entries of a "servicePlans" list: plans, and an entry that is no object
PlanEntries ==
    {JOther} \cup
    {Plan(d, m, dt) : d \in {JBool(TRUE), JBool(FALSE), JInt(1)},
                      m \in {JNull, JStr("plan retired")},
                      dt \in {JNull, JStr("2024-01-01")}}

PlansValues == {JNull} \cup {JList(l) : l \in SeqsUpTo(PlanEntries, MaxPlans)}

DepDocs ==
    {ServiceObj(JStr("x"), JNull, dep, isDep, msg1, msg2, date1, date2, plans) :
        dep \in {JNull, JBool(TRUE), JBool(FALSE), JStr("true")},
        isDep \in {JNull, JBool(TRUE)},
        msg1 \in {JNull, JStr("  "), JStr(" end of life ")},
        msg2 \in {JNull, JStr("retired")},
        date1 \in {JNull, JStr(" 2024-01-01")},
        date2 \in {JNull, JStr("2025-06-30")},
        plans \in PlansValues}

InitDep ==
    /\ Idle
    /\ arg \in [service_obj : DepDocs]
    /\ ret = NotCalled

call_aggregate_deprecation ==
    /\ ret = NotCalled
    /\ ret' = aggregate_deprecation(arg.service_obj)
    /\ UNCHANGED <<runVars, arg>>

SpecDep == InitDep /\ [][call_aggregate_deprecation]_vars

-----------------------------------------------------------------------------
(* Properties of api_get (SpecApi) *)

Called == ret # NotCalled

\* a first or second request that did not succeed: no response, or 4xx/5xx
NonSuccess(r) == r = NetFail \/ r.status >= 400

\* C2: one call of api_get issues at most two requests; the second one only
\* when the first response is 403 with X-RateLimit-Remaining "0", and then
\* after exactly one sleep; any other non-success first response raises at
\* once with no sleep and no retry; a non-success answer to the retry raises
\* with no further request.
C2_AtMostOneRetry ==
    Called =>
        /\ Count(ret.events, "get") \in {1, 2}
        /\ Count(ret.events, "get") = 2 =>
              /\ arg.r1.status = 403 /\ arg.r1.remaining = "0"
              /\ SubSeq(ret.events, 1, 3) = <<"get", "sleep", "get">>
              /\ Count(ret.events, "sleep") = 1
              /\ ret.slept >= 1
        /\ (NonSuccess(arg.r1) /\ ~(arg.r1.status = 403 /\ arg.r1.remaining = "0")) =>
              ret.events = <<"get", "raise">> /\ ret.raised
        /\ (Count(ret.events, "get") = 2 /\ NonSuccess(arg.r2)) =>
              ret.events = <<"get", "sleep", "get", "raise">> /\ ret.raised
        /\ Count(ret.events, "get") = 1 => Count(ret.events, "sleep") = 0

\* a rate-limited first response whose retry is answered 404
C2_Witness ==
    /\ Called
    /\ arg.r1.status = 403 /\ arg.r1.remaining = "0"
    /\ arg.r2.status = 404
    /\ ret.events = <<"get", "sleep", "get", "raise">>

-----------------------------------------------------------------------------
(* Properties of pick_best_link (SpecLink) *)

\* the spellings of the two classifications that occur in the documents
DiscoveryCenterSpellings == {"Discovery Center", "discovery center"}
DocumentationSpellings == {"DOCUMENTATION", "documentation"}

\* the links list of the input document, empty when absent or no list
ArgLinks == IF arg.service_obj.links.t = "list" THEN arg.service_obj.links.v ELSE <<>>

\* positions of the link objects with a non-empty value
WithValue ==
    {k \in 1..Len(ArgLinks) :
        /\ ArgLinks[k].t = "dict"
        /\ ArgLinks[k].value.t = "str"
        /\ ArgLinks[k].value.v # ""}

\* those of them classified by one of the spellings
Classified(spellings) ==
    {k \in WithValue :
        /\ ArgLinks[k].classification.t = "str"
        /\ ArgLinks[k].classification.v \in spellings}

Least(S) == CHOOSE k \in S : \A j \in S : k <= j

-----------------------------------------------------------------------------
(* Properties of aggregate_deprecation (SpecDep) *)

\* the servicePlans list of the input document, empty when absent
ArgPlans ==
    IF arg.service_obj.servicePlans.t = "list" THEN arg.service_obj.servicePlans.v ELSE <<>>

\* the values of key met while scanning the plans in list order: those of the
\* deprecated plans (null for any other entry)
PlanValues(key) ==
    [k \in 1..Len(ArgPlans) |->
        IF ArgPlans[k].t = "dict" /\ ArgPlans[k].deprecated = JBool(TRUE)
        THEN ArgPlans[k][key] ELSE JNull]

\* the first non-empty string of a sequence of values, surrounding blanks
\* removed; null when there is none
RECURSIVE FirstNonEmpty(_)
FirstNonEmpty(vals) ==
    IF vals = <<>> THEN JNull
    ELSE IF Head(vals).t = "str" /\ Strip(Head(vals).v) # ""
         THEN JStr(Strip(Head(vals).v))
         ELSE FirstNonEmpty(Tail(vals))

\* C4: the message is the first non-empty value among root deprecationMessage,
\* root deprecatedMessage, then the plans' deprecationMessage in list order;
\* the date likewise over deprecationDate, deprecatedDate, then the plans;
\* each is null when there is no such value.
C4_FirstNonEmptyWins ==
    Called =>
        /\ ret.msg = FirstNonEmpty(<<arg.service_obj.deprecationMessage,
                                     arg.service_obj.deprecatedMessage>>
                                   \o PlanValues("deprecationMessage"))
        /\ ret.date = FirstNonEmpty(<<arg.service_obj.deprecationDate,
                                      arg.service_obj.deprecatedDate>>
                                    \o PlanValues("deprecationDate"))

\* C5: the deprecated flag is true exactly when root "deprecated" or
\* "isDeprecated" is the boolean true or some plan has deprecated true; a
\* deprecated plan makes it true whatever the root-level fields say.
C5_DeprecatedFlag ==
    Called =>
        (ret.deprecated <=>
            \/ arg.service_obj.deprecated = JBool(TRUE)
            \/ arg.service_obj.isDeprecated = JBool(TRUE)
            \/ \E k \in 1..Len(ArgPlans) :
                  ArgPlans[k].t = "dict" /\ ArgPlans[k].deprecated = JBool(TRUE))

\* root-level deprecated is false, one plan is deprecated, the flag is true
C5_Witness ==
    /\ Called
    /\ arg.service_obj.deprecated = JBool(FALSE)
    /\ arg.service_obj.isDeprecated = JNull
    /\ \E k \in 1..Len(ArgPlans) :
          ArgPlans[k].t = "dict" /\ ArgPlans[k].deprecated = JBool(TRUE)
    /\ ret.deprecated

-----------------------------------------------------------------------------
(* Properties of the run of main (Spec) *)

NodesOfType(ty) == {n \in Nodes : tree[n].desc.type = ty}

\* the paths of the collected file items, in order
FilePaths == [k \in 1..Len(files) |-> files[k].path.id]

CrawlFinished == pc \in {"process", "done"}

\* C1: on a finite acyclic tree the walk lists START_PATH and each directory
\* at most once (so it makes at most 1 + #directories iterations, each of
\* which can be taken), ends on
\* the empty stack having listed them all, and returns every file item
\* exactly once and nothing else; symlinks are neither pushed nor returned.
C1_WalkVisitsOnce ==
    /\ NoDup(listed)
    /\ Range(listed) \subseteq {START_PATH} \cup NodesOfType("dir")
    /\ NoDup(stack)
    /\ Range(stack) \subseteq ({START_PATH} \cup NodesOfType("dir")) \ Range(listed)
    /\ NoDup(FilePaths)
    /\ Range(FilePaths) \subseteq NodesOfType("file")
    /\ \A k \in 1..Len(files) : files[k] = tree[files[k].path.id].desc
    /\ pc = "crawl" => ENABLED (crawl_file_items \/ crawl_return)
    /\ CrawlFinished =>
          /\ stack = <<>>
          /\ Range(listed) = {START_PATH} \cup NodesOfType("dir")
          /\ Range(FilePaths) = NodesOfType("file")
          /\ Len(files) = Cardinality(NodesOfType("file"))

\* the walk ended on a tree with a nested directory, a symlink and a file
C1_Witness ==
    /\ CrawlFinished
    /\ \E d \in NodesOfType("dir") : \E n \in Nodes : tree[n].parent = d
    /\ NodesOfType("symlink") # {}
    /\ Len(files) >= 1

\* file k of files passes the two filters of main's loop
Eligible(k) ==
    /\ EndsWithJson(files[k].path)
    /\ files[k].download_url # JNull
    /\ files[k].html_url # JNull

\* the positions of files that became an entry, in order
EntryPositions == Ascending({k \in 1..Len(handled) : handled[k] = "entry"}, 1)

\* C6: a failing file adds exactly one to errors and no entry, the loop goes
\* on, and the catalog is written; every eligible file is accounted for
\* exactly once, as an entry or as an error.
C6_PerFileErrorsCounted ==
    /\ pc \in {"process", "done"} =>
          /\ Len(handled) = i - 1
          /\ \A k \in 1..Len(handled) : Eligible(k) <=> handled[k] \in {"entry", "error"}
          /\ errors = Count(handled, "error")
          /\ Len(entries) = Count(handled, "entry")
          /\ \A k \in 1..Len(entries) : entries[k].path = files[EntryPositions[k]].path
    /\ pc = "aborted" => handled = <<>>
    /\ pc = "done" =>
          /\ Len(handled) = Len(files)
          /\ out_file # NoFile
          /\ Len(entries) + errors = Cardinality({k \in 1..Len(files) : Eligible(k)})

\* a file failed, a later file became an entry, and the catalog was written
C6_Witness ==
    /\ pc = "done"
    /\ \E j, k \in 1..Len(handled) : j < k /\ handled[j] = "error" /\ handled[k] = "entry"

\* C7: catalog.json is written at most once, after the crawl and the loop
\* over all files; a listing that raises or is no list aborts the run at
\* once, and an aborted run has written nothing.
C7_WriteOnceAtEnd ==
    /\ writes <= 1
    /\ writes = 1 <=> out_file # NoFile
    /\ writes = 1 =>
          /\ pc = "done"
          /\ stack = <<>>
          /\ i = Len(files) + 1
          /\ out_file = Catalog(head_sha, entries, errors)
    /\ (net.kind = "list" /\ (net.raised \/ net.body # "list")) => pc = "aborted"
    /\ pc = "aborted" =>
          /\ out_file = NoFile
          /\ writes = 0
          /\ ~ENABLED Next

\* a listing failed after files were collected, and nothing was written
C7_Witness ==
    /\ pc = "aborted"
    /\ Len(files) >= 1
    /\ net.body = "dict"
    /\ out_file = NoFile

C9_CountMatchesServices ==
    out_file # NoFile =>
        /\ out_file.count = Len(out_file.services)
        /\ out_file.count = Count(handled, "entry")
        /\ out_file.errors = Count(handled, "error")
        /\ out_file.services = entries

\* a catalog with an entry and an error
C9_Witness ==
    /\ out_file # NoFile
    /\ out_file.count >= 1
    /\ out_file.errors >= 1

\* the crawled files an entry traces back to by (path, sha)
Origins(e) == {k \in 1..Len(files) : files[k].path = e.path /\ files[k].sha = e.sha}

TraceableAndDistinct(es) ==
    /\ \A k \in 1..Len(es) : Cardinality(Origins(es[k])) = 1
    /\ \A j, k \in 1..Len(es) : j # k => es[j].path # es[k].path

\* C10: at every point of the run and in the written catalog, each entry
\* carries the (path, sha) of exactly one crawled file and no two entries
\* share a path.
C10_EntriesTraceToOneFile ==
    /\ TraceableAndDistinct(entries)
    /\ out_file # NoFile => TraceableAndDistinct(out_file.services)

\* a written catalog with two entries of equal sha
C10_Witness ==
    /\ out_file # NoFile
    /\ Len(out_file.services) >= 2
    /\ out_file.services[1].sha = out_file.services[2].sha

====
